---- MODULE Spec2Model ----
(***************************************************************************)
(* Session state machine of one browser instance (run_browser_instance in  *)
(* src/browser/instance.py) together with its keep-alive phase             *)
(* (handle_successful_navigation in src/browser/navigation.py).            *)
(*                                                                         *)
(* The page driver (Camoufox / Playwright) is the environment: every call  *)
(* into it returns or raises nondeterministically.  Python exceptions are  *)
(* modelled by the "outcome" a block of code ends with ("return",          *)
(* "KeepAliveError", "Exception", "SystemExit", "proceed") and by the      *)
(* except clauses of run_browser_instance that dispatch on it.             *)
(***************************************************************************)
EXTENDS Integers, Sequences, FiniteSets, TLC

\* ------------------------------------------------------------------------
\* Bounds and program constants
\* ------------------------------------------------------------------------

\* largest value of MAX_RESTART_RETRIES explored
MaxRetriesBound == 7

\* os.getenv("MAX_RESTART_RETRIES", "5")
DefaultMaxRetries == 5

\* base_delay = 3
base_delay == 3

\* cap of the exponential backoff
MaxDelay == 60

\* number of keep-alive clicks between two cookie validations
VALIDATION_CLICKS == 360

\* range(10) one-second checks of the interruptible sleep
SLEEP_TICKS == 10

\* time.sleep(15) before the keep-alive loop
SETTLE_WAIT == 15

\* max_iterations = 10 of handle_popup_dialog
POPUP_MAX_ITERATIONS == 10

\* validation_page.wait_for_timeout(2000)
VALIDATION_WAIT == 2

\* ------------------------------------------------------------------------
\* URLs.  A URL is a sequence of tokens: the host, then the tokens of the
\* path ("/" and segment names), then optionally "?" and the query.
\* Python's `a in b` on strings is contiguous containment.
\* ------------------------------------------------------------------------

AppHost == "aistudio.google.com"
AccountsHost == "accounts.google.com"

\* "accounts.google.com/v3/signin/identifier"
IDENTIFIER_PATTERN == <<AccountsHost, "/", "v3", "/", "signin", "/", "identifier">>

\* "accounts.google.com/v3/signin/accountchooser"
CHOOSER_PATTERN == <<AccountsHost, "/", "v3", "/", "signin", "/", "accountchooser">>

NoURL == <<>>

\* needle in haystack
Contains(haystack, needle) ==
    \E i \in 0..(Len(haystack) - Len(needle)) :
        SubSeq(haystack, i + 1, i + Len(needle)) = needle

\* extract_url_path(url): the path of the URL followed by "?query" when the
\* URL has one; the host is dropped
extract_url_path(url) == IF url = <<>> THEN <<>> ELSE Tail(url)

\* s.split('?')[0]
SplitQuery(s) ==
    IF \E i \in 1..Len(s) : s[i] = "?"
    THEN LET first == CHOOSE i \in 1..Len(s) :
                          s[i] = "?" /\ \A j \in 1..(i - 1) : s[j] # "?"
         IN  SubSeq(s, 1, first - 1)
    ELSE s

\* the target URL of an ordinary deployment
TargetURL == <<AppHost, "/", "apps">>

\* values of config['url'] explored
ExpectedURLs ==
    { TargetURL,
      <<AppHost>>,
      <<AppHost, "/">>,
      <<AppHost, "/", "apps", "?", "x">>,
      <<AccountsHost, "/", "v3", "/", "signin">> }

\* values of page.url after a completed navigation
FinalURLs ==
    { <<AppHost, "/", "apps">>,
      <<AppHost, "/", "apps", "/", "x">>,
      <<AppHost, "/", "x">>,
      <<AppHost>>,
      IDENTIFIER_PATTERN,
      IDENTIFIER_PATTERN \o <<"?", "x">>,
      CHOOSER_PATTERN,
      CHOOSER_PATTERN \o <<"?", "x">> }

\* ------------------------------------------------------------------------
\* Pure decisions of run_browser_instance
\* ------------------------------------------------------------------------

\* delay = min(base_delay * (2 ** (retry_count - 1)), 60)
BackoffDelayUncapped(r) == base_delay * (2 ^ (r - 1))

BackoffDelay(r) ==
    IF base_delay * (2 ^ (r - 1)) < MaxDelay THEN base_delay * (2 ^ (r - 1))
    ELSE MaxDelay

\* if retry_count > max_retries: return
RetryOneMore(r, m) == r > m + 1

RetryLimitReached(r, m) == r > m

\* expected_path = extract_url_path(expected_url).split('?')[0]
ExpectedPath(expected) == SplitQuery(extract_url_path(expected))

\* final_path = extract_url_path(final_url)
FinalPath(final) == extract_url_path(final)

\* the if / elif / else chain on final_url: which branch is taken
ClassifyPathFirst(expected, final) ==
    IF ExpectedPath(expected) # <<>>
         /\ Contains(FinalPath(final), ExpectedPath(expected)) THEN "match"
    ELSE IF Contains(final, IDENTIFIER_PATTERN) THEN "identifier"
    ELSE IF Contains(final, CHOOSER_PATTERN) THEN "chooser"
    ELSE "unexpected"

ClassifyExactPath(expected, final) ==
    IF Contains(final, IDENTIFIER_PATTERN) THEN "identifier"
    ELSE IF ExpectedPath(expected) # <<>>
              /\ ExpectedPath(expected) = FinalPath(final) THEN "match"
    ELSE IF Contains(final, CHOOSER_PATTERN) THEN "chooser"
    ELSE "unexpected"

ClassifyURL(expected, final) ==
    IF Contains(final, IDENTIFIER_PATTERN) THEN "identifier"
    ELSE IF ExpectedPath(expected) # <<>>
              /\ Contains(FinalPath(final), ExpectedPath(expected)) THEN "match"
    ELSE IF Contains(final, CHOOSER_PATTERN) THEN "chooser"
    ELSE "unexpected"

\* The try / except around page.goto.  goto_res is what page.goto (or the
\* warning screenshot of a non-2xx response) did; capture_ok tells whether
\* the diagnostic capture of the except clause succeeded.
NavigationOutcomeRetry(goto_res, capture_ok) ==
    CASE goto_res = "ok"       -> "proceed"
      [] goto_res = "timeout"  -> "KeepAliveError"
      [] goto_res = "neterror" -> "KeepAliveError"
      [] OTHER                 -> "Exception"

NavigationOutcome(goto_res, capture_ok) ==
    CASE goto_res = "ok"       -> "proceed"
      [] goto_res = "timeout"  -> "return"
      [] goto_res = "neterror" -> "return"
      [] OTHER                 -> "Exception"

\* A terminal classification: page.screenshot(...) then return.  The
\* screenshot is not guarded, so when it raises the exception propagates.
TerminalOutcome(capture_ok) == IF capture_ok THEN "return" ELSE "Exception"

\* spinner_locator.wait_for(state='hidden', timeout=30000) and its
\* except TimeoutError clause: screenshot (not guarded), then raise
SpinnerOutcome(wait_res, capture_ok) ==
    CASE wait_res = "hidden" -> "proceed"
      [] wait_res = "stuck"  -> IF capture_ok THEN "KeepAliveError" ELSE "Exception"
      [] OTHER               -> "Exception"

\* except Exception clause of the keep-alive loop: the screenshot is
\* guarded, KeepAliveError is raised either way
KeepAliveErrorUnguarded(capture_ok) ==
    IF capture_ok THEN "KeepAliveError" ELSE "Exception"

KeepAliveErrorOutcome(capture_ok) == "KeepAliveError"

\* What the try / except Exception of the keep-alive loop does with what is
\* raised inside it: an Exception becomes KeepAliveError, SystemExit is not
\* an Exception and passes through
KeepAliveLoopCatchAll(raised) == "KeepAliveError"

KeepAliveLoopCatch(raised) ==
    IF raised = "Exception" THEN "KeepAliveError" ELSE raised

\* if cookie_validator and click_counter >= 360
ValidationDueLate(counter) == counter > VALIDATION_CLICKS

ValidationDue(counter) == counter >= VALIDATION_CLICKS

\* if shutdown_event and shutdown_event.is_set() inside for _ in range(10)
PauseCheck(event) == event

LoopCheckSkipped(event) == FALSE

\* while True: if shutdown_event and shutdown_event.is_set(): return
LoopCheck(event) == event

\* validate_cookies_in_main_thread: False when new_page, goto or the wait
\* raised, or when the landed URL is a sign-in URL
validate_cookies_in_main_thread(goto_res, landed) ==
    IF goto_res # "ok" THEN FALSE
    ELSE ~(Contains(landed, IDENTIFIER_PATTERN) \/ Contains(landed, CHOOSER_PATTERN))

\* if login_button_cn.is_visible(...) or login_button_en.is_visible(...):
\* screenshot, return; otherwise handle_successful_navigation is called
LoginGateOpen(login) == IF login = "error" THEN "Exception" ELSE "enter"

LoginGate(login) ==
    CASE login = "hidden"  -> "enter"
      [] login = "visible" -> "terminal"
      [] OTHER             -> "Exception"

\* ------------------------------------------------------------------------
\* State
\* ------------------------------------------------------------------------

VARIABLES
    pc,             \* position of the instance in run_browser_instance
    expected_url,   \* config['url']
    max_retries,    \* int(os.getenv("MAX_RESTART_RETRIES", "5"))
    retry_count,    \* retry_count
    delay,          \* delay of the time.sleep in progress (0 when none)
    shutdown_event, \* shutdown_event.is_set()
    launches,       \* number of times Camoufox(...) was entered
    nav,            \* how the page.goto try block of this attempt ended
    final_url,      \* page.url read after navigation (NoURL before)
    page,           \* what the landed page shows: spinner, banner, login
    failure,        \* failure detected in this attempt (its log line)
    capture,        \* diagnostic capture of this attempt: none / ok / raised
    ka_entered,     \* handle_successful_navigation was called in this attempt
    click_counter,  \* click_counter of the keep-alive loop (0 outside it)
    tick,           \* iterations done of the interruptible sleep (0 outside it)
    iteration,      \* iteration of handle_popup_dialog (0 outside it)
    validation,     \* validation of this loop iteration: none / valid / invalid
    validation_nav, \* how validation_page.goto of that validation ended
    validation_url, \* validation_page.url read by that validation (NoURL if not read)
    unchecked,      \* time units waited in handle_successful_navigation
                    \* since shutdown_event was last checked (0 outside it)
    exit_kind       \* why run_browser_instance returned ("" while running)

\* the top-level process (main.py)
VARIABLES
    mode,           \* "standalone" or "server" (HUGGINGFACE_SPACE / --server)
    app_running,    \* the module global app_running
    sp_pc,          \* position of start_browser_instances
    sp_i,           \* index of the configuration the spawn loop is at
    proc_state,     \* each Process object: unstarted / booting / running / dead
    proc_pid,       \* process.pid of each Process object (None before start())
    processes,      \* ProcessManager.processes: key -> process_info
    added,          \* the key add_process gave each Process object passed to it
    h_pc,           \* position of signal_handler in the top-level process
    h_log,          \* steps the running signal_handler has done, in order
    signals,        \* termination signals delivered to the top-level process
    ta_pc,          \* position of terminate_all
    active_pids,    \* active_pids of terminate_all
    waited,         \* half units elapsed in the wait loop of terminate_all
    terminates,     \* process.terminate() calls of this terminate_all, per process
    kills,          \* process.kill() calls of this terminate_all, per process
    main_status,    \* "running", or the exit status of the top-level process
    event_writer,   \* names of the processes that called shutdown_event.set()
    child_path      \* how signal_handler last ended in each child: none /
                    \* returned (at its first check) / proceeded

\* the credential pipeline (utils/cookie_handler.py, utils/cookie_manager.py)
VARIABLES
    cookie_data,    \* the argument of auto_convert_to_playwright
    converted,      \* how that call ended, and the list it returned
    content,        \* what each credential source holds now
    cookie_cache,   \* CookieManager._cookie_cache: str(source) -> cookies
    reads,          \* times each source was read (file opened / getenv)
    loads,          \* load_cookies calls made for each source
    first_result,   \* what the first load_cookies call of each source gave
    last_result,    \* what the latest load_cookies call of each source gave
    last_outcome    \* how that call went: cached / loaded / the exception
                    \* raised inside it / unknownType

cookie_vars == <<cookie_data, converted, content, cookie_cache, reads, loads,
                 first_result, last_result, last_outcome>>

sup_vars == <<mode, app_running, sp_pc, sp_i, proc_state, proc_pid, processes,
              added, h_pc, h_log, signals, ta_pc, active_pids, waited,
              terminates, kills, main_status, event_writer, child_path>>

instance_vars == <<pc, expected_url, max_retries, retry_count, delay, launches,
                   nav, final_url, page, failure, capture, ka_entered,
                   click_counter, tick, iteration, validation, validation_nav,
                   validation_url, unchecked, exit_kind>>

vars == <<pc, expected_url, max_retries, retry_count, delay, shutdown_event,
          launches, nav, final_url, page, failure, capture, ka_entered,
          click_counter, tick, iteration, validation, validation_nav,
          validation_url, unchecked, exit_kind, sup_vars, cookie_vars>>

NoPage == [spinner |-> "none", banner |-> "none", login |-> "none"]

Pages == [spinner : {"hidden", "stuck", "error"},
          banner  : {"hidden", "visible", "error"},
          login   : {"hidden", "visible", "error"}]

attempt_vars == <<nav, final_url, page, failure, capture, ka_entered>>
config_vars == <<expected_url, max_retries>>
ka_vars == <<click_counter, tick, iteration, validation, validation_nav,
             validation_url, unchecked>>

\* number of Process objects (instance configurations)
MaxProcs == 2

\* termination signals delivered to the top-level process
MaxSignals == 2

Procs == 1..MaxProcs
PIDs == 1..MaxProcs

\* process.pid before process.start()
None == 0

\* while time.time() - start_wait < 5, in units of its time.sleep(0.5)
GRACE_POLLS == 10

NoCalls == [p \in Procs |-> 0]

\* the keys of ProcessManager.processes: f"temp_{n}" or a pid
TempKey(n) == <<"temp", n>>
PidKey(n) == <<"pid", n>>
IsTemp(k) == k[1] = "temp"

\* process.is_alive()
IsAlive(p) == proc_state[p] \in {"booting", "running", "terminating"}

\* self.processes[k] = v
Put(tab, k, v) == [x \in (DOMAIN tab) \cup {k} |-> IF x = k THEN v ELSE tab[x]]

\* del self.processes[k] for every k of ks
Drop(tab, ks) == [x \in (DOMAIN tab) \ ks |-> tab[x]]

EmptyTable == [x \in {} |-> 0]

\* the credential sources of the model: a file, an environment variable,
\* and a source object whose type is neither
Sources == {"file:cookies.json", "env_var:USER_COOKIE_1", "other:x"}

\* no call made yet
NoData == [type |-> "none"]
NotConverted == [kind |-> "none", cookies |-> <<>>]
NoResult == [kind |-> "none", cookies |-> <<>>]
Missing == [form |-> "missing"]

\* CookieManager() before any call; no auto_convert_to_playwright call made
InitCookies ==
    /\ cookie_data = NoData
    /\ converted = NotConverted
    /\ content = [s \in Sources |-> Missing]
    /\ cookie_cache = EmptyTable
    /\ reads = [s \in Sources |-> 0]
    /\ loads = [s \in Sources |-> 0]
    /\ first_result = [s \in Sources |-> NoResult]
    /\ last_result = [s \in Sources |-> NoResult]
    /\ last_outcome = [s \in Sources |-> "none"]

\* state of the module and of ProcessManager() before main() chooses a mode
InitSupervisor ==
    /\ app_running = FALSE
    /\ sp_pc = "idle"
    /\ sp_i = 1
    /\ proc_state = [p \in Procs |-> "unstarted"]
    /\ proc_pid = [p \in Procs |-> None]
    /\ processes = EmptyTable
    /\ added = EmptyTable
    /\ h_pc = "idle"
    /\ h_log = <<>>
    /\ signals = 0
    /\ ta_pc = "idle"
    /\ active_pids = {}
    /\ waited = 0
    /\ terminates = NoCalls
    /\ kills = NoCalls
    /\ main_status = "running"
    /\ event_writer = {}
    /\ child_path = [p \in Procs |-> "none"]

InitCommon ==
    /\ pc = "Starting"
    /\ retry_count = 0
    /\ delay = 0
    /\ shutdown_event = FALSE
    /\ launches = 0
    /\ nav = "none"
    /\ final_url = NoURL
    /\ page = NoPage
    /\ failure = "none"
    /\ capture = "none"
    /\ ka_entered = FALSE
    /\ click_counter = 0
    /\ tick = 0
    /\ iteration = 0
    /\ validation = "none"
    /\ validation_nav = "none"
    /\ validation_url = NoURL
    /\ unchecked = 0
    /\ exit_kind = ""

\* one target URL, every retry ceiling
Init ==
    /\ InitCommon
    /\ InitSupervisor
    /\ InitCookies
    /\ mode = "standalone"
    /\ expected_url = TargetURL
    /\ max_retries \in {0, 1, DefaultMaxRetries, MaxRetriesBound}

\* every target URL, one retry ceiling
InitClassify ==
    /\ InitCommon
    /\ InitSupervisor
    /\ InitCookies
    /\ mode = "standalone"
    /\ expected_url \in ExpectedURLs
    /\ max_retries = 1

\* ------------------------------------------------------------------------
\* The except clauses of run_browser_instance
\* ------------------------------------------------------------------------

\* How a block that ended with `outcome` leaves run_browser_instance:
\*   "return"          a return statement inside the with block
\*   "KeepAliveError"  except KeepAliveError: count, give up or back off
\*   "SystemExit"      except SystemExit: return
\*   "Exception"       except Exception: return
Dispatch(outcome) ==
    CASE outcome = "return" ->
            /\ pc' = "Exited"
            /\ exit_kind' = "returned"
            /\ UNCHANGED <<retry_count, delay>>
      [] outcome = "KeepAliveError" ->
            /\ retry_count' = retry_count + 1
            /\ IF RetryLimitReached(retry_count + 1, max_retries)
               THEN /\ pc' = "Exited"
                    /\ exit_kind' = "gaveUp"
                    /\ UNCHANGED delay
               ELSE /\ pc' = "Backoff"
                    /\ delay' = BackoffDelay(retry_count + 1)
                    /\ UNCHANGED exit_kind
      [] outcome = "SystemExit" ->
            /\ pc' = "Exited"
            /\ exit_kind' = "cookieFailure"
            /\ UNCHANGED <<retry_count, delay>>
      [] outcome = "Exception" ->
            /\ pc' = "Exited"
            /\ exit_kind' = "unexpected"
            /\ UNCHANGED <<retry_count, delay>>

\* handle_successful_navigation returned: retry_count = 0; return
NormalEnd ==
    /\ retry_count' = 0
    /\ pc' = "Exited"
    /\ exit_kind' = "normal"
    /\ UNCHANGED delay

\* a failure is detected and its diagnostic capture is attempted
Diagnose(what, capture_ok) ==
    /\ failure' = what
    /\ capture' = IF capture_ok THEN "ok" ELSE "raised"

\* ------------------------------------------------------------------------
\* run_browser_instance
\* ------------------------------------------------------------------------

\* signal setup, cookie_source check, cookie loading, launch options
Start ==
    /\ pc = "Starting"
    /\ \E res \in {"ok", "noSource", "loadError", "noCookies"} :
          IF res = "ok"
          THEN /\ pc' = "LoopTop"
               /\ UNCHANGED exit_kind
          ELSE /\ pc' = "Exited"
               /\ exit_kind' = res
    /\ UNCHANGED <<sup_vars, cookie_vars, config_vars, retry_count, delay, shutdown_event, launches,
                   attempt_vars, ka_vars>>

\* while True: if shutdown_event and shutdown_event.is_set(): return
LoopTop ==
    /\ pc = "LoopTop"
    /\ IF LoopCheck(shutdown_event)
       THEN /\ pc' = "Exited"
            /\ exit_kind' = "shutdown"
       ELSE /\ pc' = "Launching"
            /\ UNCHANGED exit_kind
    /\ UNCHANGED <<sup_vars, cookie_vars, config_vars, retry_count, delay, shutdown_event, launches,
                   attempt_vars, ka_vars>>

\* with Camoufox(**launch_options) as browser: new_context, add_cookies,
\* new_page, CookieValidator(...)
Launch ==
    /\ pc = "Launching"
    /\ launches' = launches + 1
    /\ nav' = "none"
    /\ final_url' = NoURL
    /\ page' = NoPage
    /\ capture' = "none"
    /\ ka_entered' = FALSE
    /\ \E ok \in BOOLEAN :
          IF ok
          THEN /\ pc' = "Navigating"
               /\ failure' = "none"
               /\ UNCHANGED <<retry_count, delay, exit_kind>>
          ELSE /\ failure' = "launchError"
               /\ Dispatch("Exception")
    /\ UNCHANGED <<sup_vars, cookie_vars, config_vars, shutdown_event, ka_vars>>

\* response = page.goto(expected_url, ...) with its except TimeoutError and
\* except PlaywrightError clauses
Navigate ==
    /\ pc = "Navigating"
    /\ \E goto_res \in {"ok", "timeout", "neterror", "other"} :
          /\ nav' = goto_res
          /\ CASE goto_res = "ok" ->
                    /\ pc' = "Classifying"
                    /\ UNCHANGED <<failure, capture, retry_count, delay, exit_kind>>
               [] goto_res \in {"timeout", "neterror"} ->
                    \E capture_ok \in BOOLEAN :
                       /\ Diagnose(IF goto_res = "timeout" THEN "navTimeout"
                                   ELSE "navNetError", capture_ok)
                       /\ Dispatch(NavigationOutcome(goto_res, capture_ok))
               [] OTHER ->
                    /\ failure' = "navOther"
                    /\ UNCHANGED capture
                    /\ Dispatch(NavigationOutcome(goto_res, TRUE))
    /\ UNCHANGED <<sup_vars, cookie_vars, config_vars, shutdown_event, launches, final_url, page,
                   ka_entered, ka_vars>>

\* page.wait_for_timeout(2000); final_url = page.url; the if / elif / else
\* chain on final_url up to the branch taken
Classify ==
    /\ pc = "Classifying"
    /\ \/ \* page.wait_for_timeout or page.url raises
          /\ failure' = "settleError"
          /\ Dispatch("Exception")
          /\ UNCHANGED <<final_url, page, capture>>
       \/ \E f \in FinalURLs, p \in Pages :
             /\ final_url' = f
             /\ page' = p
             /\ LET branch == ClassifyURL(expected_url, f)
                IN  IF branch = "match"
                    THEN /\ pc' = "SpinnerWait"
                         /\ UNCHANGED <<failure, capture, retry_count, delay,
                                        exit_kind>>
                    ELSE \E capture_ok \in BOOLEAN :
                            /\ Diagnose(IF branch = "unexpected"
                                        THEN "unexpectedURL" ELSE branch,
                                        capture_ok)
                            /\ Dispatch(TerminalOutcome(capture_ok))
    /\ UNCHANGED <<sup_vars, cookie_vars, config_vars, shutdown_event, launches, nav, ka_entered,
                   ka_vars>>

\* spinner_locator.wait_for(state='hidden', timeout=30000)
SpinnerWait ==
    /\ pc = "SpinnerWait"
    /\ CASE page.spinner = "hidden" ->
              /\ pc' = "BannerCheck"
              /\ UNCHANGED <<failure, capture, retry_count, delay, exit_kind>>
         [] page.spinner = "stuck" ->
              \E capture_ok \in BOOLEAN :
                 /\ Diagnose("spinnerTimeout", capture_ok)
                 /\ Dispatch(SpinnerOutcome(page.spinner, capture_ok))
         [] OTHER ->
              /\ failure' = "spinnerError"
              /\ UNCHANGED capture
              /\ Dispatch(SpinnerOutcome(page.spinner, TRUE))
    /\ UNCHANGED <<sup_vars, cookie_vars, config_vars, shutdown_event, launches, nav, final_url,
                   page, ka_entered, ka_vars>>

\* if auth_error_locator.is_visible(timeout=2000): screenshot; return
BannerCheck ==
    /\ pc = "BannerCheck"
    /\ CASE page.banner = "hidden" ->
              /\ pc' = "LoginCheck"
              /\ UNCHANGED <<failure, capture, retry_count, delay, exit_kind>>
         [] page.banner = "visible" ->
              \E capture_ok \in BOOLEAN :
                 /\ Diagnose("authBanner", capture_ok)
                 /\ Dispatch(TerminalOutcome(capture_ok))
         [] OTHER ->
              /\ failure' = "bannerError"
              /\ UNCHANGED capture
              /\ Dispatch("Exception")
    /\ UNCHANGED <<sup_vars, cookie_vars, config_vars, shutdown_event, launches, nav, final_url,
                   page, ka_entered, ka_vars>>

\* if login_button_cn.is_visible(...) or login_button_en.is_visible(...):
\* screenshot; return.  Otherwise handle_successful_navigation(...) is called.
LoginCheck ==
    /\ pc = "LoginCheck"
    /\ CASE LoginGate(page.login) = "enter" ->
              /\ pc' = "KeepAlive"
              /\ ka_entered' = TRUE
              /\ UNCHANGED <<failure, capture, retry_count, delay, exit_kind>>
         [] LoginGate(page.login) = "terminal" ->
              /\ UNCHANGED ka_entered
              /\ \E capture_ok \in BOOLEAN :
                    /\ Diagnose("loginVisible", capture_ok)
                    /\ Dispatch(TerminalOutcome(capture_ok))
         [] OTHER ->
              /\ failure' = "loginError"
              /\ UNCHANGED <<capture, ka_entered>>
              /\ Dispatch("Exception")
    /\ UNCHANGED <<sup_vars, cookie_vars, config_vars, shutdown_event, launches, nav, final_url,
                   page, ka_vars>>

\* except KeepAliveError: ... time.sleep(delay); continue
Backoff ==
    /\ pc = "Backoff"
    /\ pc' = "LoopTop"
    /\ delay' = 0
    /\ UNCHANGED <<sup_vars, cookie_vars, config_vars, retry_count, shutdown_event, launches,
                   attempt_vars, ka_vars, exit_kind>>

\* ------------------------------------------------------------------------
\* handle_successful_navigation
\* ------------------------------------------------------------------------

\* the locals of handle_successful_navigation go out of scope
LeaveKeepAlive ==
    /\ click_counter' = 0
    /\ tick' = 0
    /\ iteration' = 0
    /\ validation' = "none"
    /\ validation_nav' = "none"
    /\ validation_url' = NoURL
    /\ unchecked' = 0

\* page.click('body') before the loop: not inside any try of this function
KeepAliveEnter ==
    /\ pc = "KeepAlive"
    /\ \E ok \in BOOLEAN :
          IF ok
          THEN /\ pc' = "KA_Popup"
               /\ UNCHANGED <<failure, retry_count, delay, exit_kind>>
          ELSE /\ failure' = "focusError"
               /\ Dispatch("Exception")
    /\ UNCHANGED <<sup_vars, cookie_vars, config_vars, shutdown_event, launches, nav, final_url,
                   page, capture, ka_entered, ka_vars>>

\* handle_popup_dialog(page, logger), one round of its for loop:
\* time.sleep(1), then each of the two buttons is clicked when visible and
\* time.sleep(1) follows each click; errors are swallowed.  The loop ends
\* after a round without a click or after max_iterations rounds.
KeepAlivePopup ==
    /\ pc = "KA_Popup"
    /\ \E clicks \in 0..2 :
          /\ unchecked' = unchecked + 1 + clicks
          /\ IF clicks = 0 \/ iteration + 1 = POPUP_MAX_ITERATIONS
             THEN /\ pc' = "KA_Settle"
                  /\ iteration' = 0
             ELSE /\ pc' = "KA_Popup"
                  /\ iteration' = iteration + 1
    /\ UNCHANGED <<sup_vars, cookie_vars, config_vars, retry_count, delay, shutdown_event, launches,
                   attempt_vars, click_counter, tick, validation, validation_nav,
                   validation_url, exit_kind>>

\* time.sleep(15); click_counter = 0
KeepAliveSettle ==
    /\ pc = "KA_Settle"
    /\ pc' = "KA_LoopTop"
    /\ click_counter' = 0
    /\ tick' = 0
    /\ unchecked' = unchecked + SETTLE_WAIT
    /\ UNCHANGED <<sup_vars, cookie_vars, config_vars, retry_count, delay, shutdown_event, launches,
                   attempt_vars, iteration, validation, validation_nav,
                   validation_url, exit_kind>>

\* one iteration of while True up to the interruptible sleep
KeepAliveClick ==
    /\ pc = "KA_LoopTop"
    /\ IF shutdown_event
       THEN \* break, the function returns
            /\ NormalEnd
            /\ LeaveKeepAlive
            /\ UNCHANGED <<failure, capture>>
       ELSE \E click_ok \in BOOLEAN :
              IF ~click_ok
              THEN \* except Exception as e: screenshot; raise KeepAliveError
                   /\ \E capture_ok \in BOOLEAN :
                         /\ Diagnose("keepAliveClick", capture_ok)
                         /\ Dispatch(KeepAliveErrorOutcome(capture_ok))
                   /\ LeaveKeepAlive
              ELSE IF ValidationDue(click_counter + 1)
                   THEN \E goto_res \in {"ok", "timeout", "neterror", "other"},
                           landed \in {<<AppHost, "/", "apps">>, IDENTIFIER_PATTERN,
                                       CHOOSER_PATTERN \o <<"?", "x">>} :
                          /\ validation_nav' = goto_res
                          /\ validation_url' = IF goto_res = "ok" THEN landed
                                                ELSE NoURL
                          /\ IF validate_cookies_in_main_thread(goto_res, landed)
                             THEN /\ click_counter' = 0
                                  /\ tick' = 0
                                  /\ validation' = "valid"
                                  /\ unchecked' = VALIDATION_WAIT
                                  /\ pc' = "KA_Sleep"
                                  /\ UNCHANGED <<failure, capture, retry_count,
                                                 delay, exit_kind, iteration>>
                             ELSE \* shutdown_instance_on_cookie_failure: sys.exit(1)
                                  /\ failure' = "cookieInvalid"
                                  /\ click_counter' = 0
                                  /\ tick' = 0
                                  /\ iteration' = 0
                                  /\ validation' = "none"
                                  /\ unchecked' = 0
                                  /\ Dispatch(KeepAliveLoopCatch("SystemExit"))
                                  /\ UNCHANGED capture
                   ELSE /\ click_counter' = click_counter + 1
                        /\ tick' = 0
                        /\ validation' = "none"
                        /\ validation_nav' = "none"
                        /\ validation_url' = NoURL
                        /\ unchecked' = 0
                        /\ pc' = "KA_Sleep"
                        /\ UNCHANGED <<failure, capture, retry_count, delay,
                                       exit_kind, iteration>>
    /\ UNCHANGED <<sup_vars, cookie_vars, config_vars, shutdown_event, launches, nav, final_url,
                   page, ka_entered>>

\* for _ in range(10): if shutdown_event.is_set(): return; time.sleep(1)
KeepAliveSleep ==
    /\ pc = "KA_Sleep"
    /\ IF PauseCheck(shutdown_event)
       THEN /\ NormalEnd
            /\ LeaveKeepAlive
       ELSE /\ tick' = IF tick + 1 = SLEEP_TICKS THEN 0 ELSE tick + 1
            /\ pc' = IF tick + 1 = SLEEP_TICKS THEN "KA_LoopTop" ELSE "KA_Sleep"
            /\ unchecked' = 1
            /\ UNCHANGED <<retry_count, delay, exit_kind, click_counter,
                           iteration, validation, validation_nav,
                           validation_url>>
    /\ UNCHANGED <<sup_vars, cookie_vars, config_vars, shutdown_event, launches, attempt_vars>>

\* ------------------------------------------------------------------------
\* Environment: the top-level process sets the shared event
\* ------------------------------------------------------------------------

\* shutdown_event.set() in signal_handler
SetShutdown ==
    /\ ~shutdown_event
    /\ shutdown_event' = TRUE
    /\ UNCHANGED <<sup_vars, cookie_vars, pc, config_vars, retry_count, delay, launches,
                   attempt_vars, ka_vars, exit_kind>>

Next ==
    \/ Start
    \/ LoopTop
    \/ Launch
    \/ Navigate
    \/ Classify
    \/ SpinnerWait
    \/ BannerCheck
    \/ LoginCheck
    \/ Backoff
    \/ KeepAliveEnter
    \/ KeepAlivePopup
    \/ KeepAliveSettle
    \/ KeepAliveClick
    \/ KeepAliveSleep
    \/ SetShutdown

Spec == Init /\ [][Next]_vars

SpecClassify == InitClassify /\ [][Next]_vars

\* ------------------------------------------------------------------------
\* The top-level process: ProcessManager (main.py)
\* ------------------------------------------------------------------------

\* temp_id = f"temp_{len(self.processes)}" if pid is None else pid
AddKey(tab, pid) == IF pid = None THEN TempKey(Cardinality(DOMAIN tab)) ELSE PidKey(pid)

\* add_process: self.processes[temp_id] = process_info
AddProcess(tab, p) ==
    Put(tab, AddKey(tab, proc_pid[p]), [process |-> p, pid |-> proc_pid[p]])

RekeyedPidStale(info_pid, real_pid) == info_pid

\* process_info['pid'] = process.pid
RekeyedPid(info_pid, real_pid) == real_pid

RekeyKeepsPlaceholder(tab, moved) == {}

\* del self.processes[temp_id]
RekeyDeletes(tab, moved) == moved

\* update_temp_pids
UpdateTempPids(tab) ==
    LET moved == {k \in DOMAIN tab :
                     IsTemp(k) /\ proc_pid[tab[k].process] # None}
        target(k) == PidKey(proc_pid[tab[k].process])
        kept == Drop(tab, RekeyDeletes(tab, moved))
        keys == (DOMAIN kept) \cup {target(k) : k \in moved}
    IN  [x \in keys |->
            IF \E k \in moved : target(k) = x
            THEN LET k == CHOOSE m \in moved : target(m) = x
                 IN  [process |-> tab[k].process,
                      pid |-> RekeyedPid(tab[k].pid, proc_pid[tab[k].process])]
            ELSE kept[x]]

DeadPidsAll(t) == DOMAIN t

\* dead_pids of get_alive_processes
DeadPids(t) == {k \in DOMAIN t : ~IsAlive(t[k].process)}

\* get_alive_processes: update_temp_pids, then remove the records of dead
\* processes
GetAliveProcesses(tab) ==
    LET t == UpdateTempPids(tab)
    IN  Drop(t, DeadPids(t))

\* the effect of SIGTERM on a child: the handler inherited from the parent
\* returns at its first check while the child boots; after the child has
\* reset SIGTERM to SIG_DFL the signal ends it
AfterSigterm(st) == IF st = "running" THEN "terminating" ELSE st

main_vars == <<mode, app_running, sp_pc, sp_i, h_pc, h_log, signals,
               main_status, event_writer, child_path>>

\* terminate_all up to the loop that waits: update_temp_pids, the empty
\* check, and process.terminate() for every live process
TerminateAllBegin ==
    LET tab == UpdateTempPids(processes)
        targets == {k \in DOMAIN tab : IsAlive(tab[k].process)}
        procs == {tab[k].process : k \in targets}
    IN  /\ processes' = tab
        /\ active_pids' = targets
        /\ terminates' = [p \in Procs |-> IF p \in procs THEN 1 ELSE 0]
        /\ kills' = NoCalls
        /\ proc_state' = [p \in Procs |->
                             IF p \in procs THEN AfterSigterm(proc_state[p])
                             ELSE proc_state[p]]
        /\ waited' = 0
        /\ ta_pc' = IF targets = {} THEN "returned" ELSE "wait"
        /\ UNCHANGED <<proc_pid, added>>

WindowEndsEarly(polls) == polls >= GRACE_POLLS - 1

\* not (time.time() - start_wait < 5)
WindowElapsed(polls) == polls >= GRACE_POLLS

\* one iteration of the wait loop of terminate_all
TA_Wait ==
    /\ ta_pc = "wait"
    /\ LET still_alive == {k \in active_pids :
                              k \in DOMAIN processes
                              /\ IsAlive(processes[k].process)}
       IN  IF WindowElapsed(waited)
           THEN /\ ta_pc' = "kill"
                /\ UNCHANGED waited
           ELSE IF still_alive = {}
                THEN /\ ta_pc' = "returned"
                     /\ UNCHANGED waited
                ELSE /\ waited' = waited + 1
                     /\ UNCHANGED ta_pc
    /\ UNCHANGED <<proc_state, proc_pid, processes, added, active_pids,
                   terminates, kills>>
    /\ UNCHANGED <<main_vars, instance_vars, cookie_vars, shutdown_event>>

\* for pid in active_pids: if pid in self.processes and pid is not None
KillTargets(pids) == pids \cap DOMAIN processes

KillUnchecked(p) == TRUE

\* if process and hasattr(process, 'is_alive') and process.is_alive():
\* process.kill()
KillNeeded(p) == IsAlive(p)

\* the last phase of terminate_all: process.kill() for what is still alive
TA_Kill ==
    /\ ta_pc = "kill"
    /\ LET procs == {processes[k].process : k \in
                        {x \in KillTargets(active_pids) :
                            KillNeeded(processes[x].process)}}
       IN  /\ kills' = [p \in Procs |->
                           IF p \in procs THEN kills[p] + 1 ELSE kills[p]]
           /\ proc_state' = [p \in Procs |->
                           IF p \in procs THEN "dead" ELSE proc_state[p]]
    /\ ta_pc' = "returned"
    /\ UNCHANGED <<proc_pid, processes, added, active_pids, waited,
                   terminates>>
    /\ UNCHANGED <<main_vars, instance_vars, cookie_vars, shutdown_event>>

\* an exception raised inside terminate_all
TA_Raise ==
    /\ ta_pc \in {"wait", "kill"}
    /\ ta_pc' = "raised"
    /\ UNCHANGED <<proc_state, proc_pid, processes, added, active_pids,
                   waited, terminates, kills>>
    /\ UNCHANGED <<main_vars, instance_vars, cookie_vars, shutdown_event>>

\* a child ends: by itself, or by the SIGTERM that is pending on it
ChildExit ==
    /\ \E p \in Procs :
          /\ IsAlive(p)
          /\ proc_state' = [proc_state EXCEPT ![p] = "dead"]
    /\ UNCHANGED <<proc_pid, processes, added, ta_pc, active_pids, waited,
                   terminates, kills>>
    /\ UNCHANGED <<main_vars, instance_vars, cookie_vars, shutdown_event>>

\* signal.signal(SIGTERM, SIG_DFL); signal.signal(SIGINT, SIG_IGN) in the child
ChildReset ==
    /\ \E p \in Procs :
          /\ proc_state[p] = "booting"
          /\ proc_state' = [proc_state EXCEPT ![p] = "running"]
    /\ UNCHANGED <<proc_pid, processes, added, ta_pc, active_pids, waited,
                   terminates, kills>>
    /\ UNCHANGED <<main_vars, instance_vars, cookie_vars, shutdown_event>>

\* the pid the system gives the next child: pids are handed out in order
NextPid == CHOOSE n \in PIDs :
              /\ \A q \in Procs : proc_pid[q] # n
              /\ \A m \in PIDs : m < n => \E q \in Procs : proc_pid[q] = m

\* process.start(): the child exists and process.pid is assigned
StartProcess(p) ==
    /\ proc_state[p] = "unstarted"
    /\ proc_pid' = [proc_pid EXCEPT ![p] = NextPid]
    /\ proc_state' = [proc_state EXCEPT ![p] = "booting"]

\* ---- the ProcessManager called by a client, one call at a time ----

PM_Start ==
    /\ ta_pc = "idle"
    /\ \E p \in Procs : StartProcess(p)
    /\ UNCHANGED <<processes, added, ta_pc, active_pids, waited, terminates,
                   kills>>
    /\ UNCHANGED <<main_vars, instance_vars, cookie_vars, shutdown_event>>

\* add_process(process) for a Process object never added before, or for one
\* not yet started whose record was removed
PM_AddProcess ==
    /\ ta_pc = "idle"
    /\ \E p \in {q \in Procs :
                  \/ q \notin DOMAIN added
                  \/ /\ proc_state[q] = "unstarted"
                     /\ \A k \in DOMAIN processes : processes[k].process # q} :
          /\ processes' = AddProcess(processes, p)
          /\ added' = Put(added, p, AddKey(processes, proc_pid[p]))
    /\ UNCHANGED <<proc_state, proc_pid, ta_pc, active_pids, waited,
                   terminates, kills>>
    /\ UNCHANGED <<main_vars, instance_vars, cookie_vars, shutdown_event>>

PM_UpdateTempPids ==
    /\ ta_pc = "idle"
    /\ processes' = UpdateTempPids(processes)
    /\ UNCHANGED <<proc_state, proc_pid, added, ta_pc, active_pids, waited,
                   terminates, kills>>
    /\ UNCHANGED <<main_vars, instance_vars, cookie_vars, shutdown_event>>

PM_RemoveProcess ==
    /\ ta_pc = "idle"
    /\ \E k \in DOMAIN processes : processes' = Drop(processes, {k})
    /\ UNCHANGED <<proc_state, proc_pid, added, ta_pc, active_pids, waited,
                   terminates, kills>>
    /\ UNCHANGED <<main_vars, instance_vars, cookie_vars, shutdown_event>>

PM_GetAliveProcesses ==
    /\ ta_pc = "idle"
    /\ processes' = GetAliveProcesses(processes)
    /\ UNCHANGED <<proc_state, proc_pid, added, ta_pc, active_pids, waited,
                   terminates, kills>>
    /\ UNCHANGED <<main_vars, instance_vars, cookie_vars, shutdown_event>>

\* a request to /health or /: get_alive_count(), which is
\* len(self.get_alive_processes()), then get_count()
PM_StatusRequest ==
    /\ ta_pc = "idle"
    /\ processes' = GetAliveProcesses(processes)
    /\ UNCHANGED <<proc_state, proc_pid, added, ta_pc, active_pids, waited,
                   terminates, kills>>
    /\ UNCHANGED <<main_vars, instance_vars, cookie_vars, shutdown_event>>

PM_TerminateAll ==
    /\ ta_pc = "idle"
    /\ TerminateAllBegin
    /\ UNCHANGED <<main_vars, instance_vars, cookie_vars, shutdown_event>>

\* terminate_all returns, or its exception reaches the caller
PM_Return ==
    /\ ta_pc \in {"returned", "raised"}
    /\ ta_pc' = "idle"
    /\ active_pids' = {}
    /\ waited' = 0
    /\ terminates' = NoCalls
    /\ kills' = NoCalls
    /\ UNCHANGED <<proc_state, proc_pid, processes, added>>
    /\ UNCHANGED <<main_vars, instance_vars, cookie_vars, shutdown_event>>

InitPM ==
    /\ InitCommon
    /\ InitSupervisor
    /\ InitCookies
    /\ expected_url = TargetURL
    /\ max_retries = DefaultMaxRetries
    /\ mode = "standalone"

NextPM ==
    \/ PM_Start
    \/ PM_AddProcess
    \/ PM_UpdateTempPids
    \/ PM_RemoveProcess
    \/ PM_GetAliveProcesses
    \/ PM_StatusRequest
    \/ PM_TerminateAll
    \/ TA_Wait
    \/ TA_Kill
    \/ TA_Raise
    \/ PM_Return
    \/ ChildExit
    \/ ChildReset

SpecPM == InitPM /\ [][NextPM]_vars

\* ------------------------------------------------------------------------
\* The top-level process: start_browser_instances and signal_handler
\* ------------------------------------------------------------------------

\* the signals main() registers signal_handler for
HandledSignals == {"SIGTERM", "SIGINT", "SIGQUIT", "SIGHUP"}

HandlerProceedsAnywhere(name) == TRUE

\* not (multiprocessing.current_process().name != 'MainProcess')
HandlerProceeds(name) == name = "MainProcess"

HandlerCatchesNothing(exc) == FALSE

\* except Exception around shutdown_event.set() and around terminate_all
HandlerCatches(exc) == exc = "Exception"

EventToggled(event) == ~event

\* shutdown_event.set()
EventAfterSet(event) == TRUE

SpawnIgnoresFlag(running) == TRUE

\* not (if not app_running: break)
SpawnContinues(running) == running

\* what a signal does in a child: signal_handler is inherited from the
\* parent for all four signals; run_browser_instance then resets SIGTERM to
\* SIG_DFL and SIGINT to SIG_IGN
ChildDisposition(st, sig) ==
    IF st = "booting" THEN "handler"
    ELSE IF sig = "SIGTERM" THEN "default"
    ELSE IF sig = "SIGINT" THEN "ignore"
    ELSE "handler"

\* the thread that runs start_browser_instances can take a step: in
\* standalone mode it is the main thread, which signal_handler suspends
SpawnRuns ==
    /\ main_status = "running"
    /\ mode = "server" \/ h_pc = "idle"

\* ProcessManager.lock is free (terminate_all holds it while it runs)
LockFree == ta_pc = "idle"

\* the SystemExit of sys.exit(0) is raised where the main thread was
\* interrupted; the bare except around process.join swallows it
ExitSwallowed == mode = "standalone" /\ sp_pc = "join"

ta_vars == <<ta_pc, active_pids, waited, terminates, kills>>
child_vars == <<proc_state, proc_pid>>
handler_vars == <<h_pc, h_log, signals, event_writer>>

\* run_standalone_mode / run_server_mode: app_running = True, then
\* start_browser_instances in this thread or in a daemon thread
MainStart ==
    /\ main_status = "running"
    /\ h_pc = "idle"
    /\ sp_pc = "idle"
    /\ app_running' = TRUE
    /\ sp_pc' = "check"
    /\ UNCHANGED <<mode, sp_i, processes, added, main_status, child_path>>
    /\ UNCHANGED <<handler_vars, ta_vars, child_vars, instance_vars, cookie_vars,
                   shutdown_event>>

\* for i, profile in enumerate(instance_profiles, 1): if not app_running: break
SpawnCheck ==
    /\ SpawnRuns
    /\ sp_pc = "check"
    /\ sp_pc' = IF SpawnContinues(app_running) THEN "start" ELSE "monitor"
    /\ UNCHANGED <<mode, app_running, sp_i, processes, added, main_status,
                   child_path>>
    /\ UNCHANGED <<handler_vars, ta_vars, child_vars, instance_vars, cookie_vars,
                   shutdown_event>>

\* process = multiprocessing.Process(...); process.start()
SpawnStart ==
    /\ SpawnRuns
    /\ sp_pc = "start"
    /\ StartProcess(sp_i)
    /\ sp_pc' = "add"
    /\ UNCHANGED <<mode, app_running, sp_i, processes, added, main_status,
                   child_path>>
    /\ UNCHANGED <<handler_vars, ta_vars, instance_vars, cookie_vars, shutdown_event>>

\* time.sleep(0.1); process_manager.add_process(process, final_config);
\* time.sleep(start_delay)
SpawnAdd ==
    /\ SpawnRuns
    /\ LockFree
    /\ sp_pc = "add"
    /\ processes' = AddProcess(processes, sp_i)
    /\ added' = Put(added, sp_i, AddKey(processes, proc_pid[sp_i]))
    /\ IF sp_i < MaxProcs
       THEN /\ sp_i' = sp_i + 1
            /\ sp_pc' = "check"
       ELSE /\ sp_pc' = "monitor"
            /\ UNCHANGED sp_i
    /\ UNCHANGED <<mode, app_running, main_status, child_path>>
    /\ UNCHANGED <<handler_vars, ta_vars, child_vars, instance_vars, cookie_vars,
                   shutdown_event>>

RestartDead(st) == IF st = "dead" THEN "booting" ELSE st

\* what the monitoring loop does to a Process object it looks at: is_alive()
\* and remove_process leave it as it is, nothing is started in its place
AfterReap(st) == st

\* while app_running: alive_processes = process_manager.get_alive_processes();
\* if not alive_processes: break
Monitor ==
    /\ SpawnRuns
    /\ LockFree
    /\ sp_pc = "monitor"
    /\ IF app_running
       THEN /\ processes' = GetAliveProcesses(processes)
            /\ proc_state' = [p \in Procs |-> AfterReap(proc_state[p])]
            /\ sp_pc' = IF DOMAIN processes' = {} THEN "done" ELSE "join"
       ELSE /\ sp_pc' = "done"
            /\ UNCHANGED <<processes, proc_state>>
    /\ UNCHANGED <<mode, app_running, sp_i, added, main_status, child_path>>
    /\ UNCHANGED <<handler_vars, ta_vars, proc_pid, instance_vars, cookie_vars,
                   shutdown_event>>

\* for process in alive_processes: try: process.join(timeout=1) except: pass
MonitorJoin ==
    /\ SpawnRuns
    /\ sp_pc = "join"
    /\ sp_pc' = "sleep"
    /\ UNCHANGED <<mode, app_running, sp_i, processes, added, main_status,
                   child_path>>
    /\ UNCHANGED <<handler_vars, ta_vars, child_vars, instance_vars, cookie_vars,
                   shutdown_event>>

\* time.sleep(1) at the end of the monitoring loop
MonitorSleep ==
    /\ SpawnRuns
    /\ sp_pc = "sleep"
    /\ sp_pc' = "monitor"
    /\ UNCHANGED <<mode, app_running, sp_i, processes, added, main_status,
                   child_path>>
    /\ UNCHANGED <<handler_vars, ta_vars, child_vars, instance_vars, cookie_vars,
                   shutdown_event>>

\* start_browser_instances returns to main() in standalone mode, and the
\* top-level process ends
MainReturn ==
    /\ SpawnRuns
    /\ mode = "standalone"
    /\ sp_pc = "done"
    /\ main_status' = "exit0"
    /\ UNCHANGED <<mode, app_running, sp_pc, sp_i, processes, added,
                   child_path>>
    /\ UNCHANGED <<handler_vars, ta_vars, child_vars, instance_vars, cookie_vars,
                   shutdown_event>>

\* a signal is delivered to the top-level process: signal_handler starts in
\* the main thread, on top of whatever the main thread was doing (a handler
\* that was running never resumes, since the new one ends in sys.exit)
Signal ==
    /\ main_status = "running"
    /\ signals < MaxSignals
    /\ signals' = signals + 1
    /\ IF HandlerProceeds("MainProcess")
       THEN /\ h_pc' = "flag"
            /\ h_log' = <<>>
            /\ ta_pc' = "idle"
            /\ active_pids' = {}
            /\ waited' = 0
       ELSE UNCHANGED <<h_pc, h_log, ta_pc, active_pids, waited>>
    /\ UNCHANGED <<mode, app_running, sp_pc, sp_i, processes, added,
                   main_status, child_path, event_writer, terminates, kills>>
    /\ UNCHANGED <<child_vars, instance_vars, cookie_vars, shutdown_event>>

\* an exception leaves signal_handler
HandlerAbort ==
    /\ h_pc' = "idle"
    /\ main_status' = "exit1"

\* app_running = False
HandlerFlag ==
    /\ h_pc = "flag"
    /\ app_running' = FALSE
    /\ h_log' = Append(h_log, "flag")
    /\ h_pc' = "event"
    /\ UNCHANGED <<mode, sp_pc, sp_i, processes, added, main_status,
                   child_path, signals, event_writer>>
    /\ UNCHANGED <<ta_vars, child_vars, instance_vars, cookie_vars, shutdown_event>>

\* try: shutdown_event.set() except Exception
HandlerEvent ==
    /\ h_pc = "event"
    /\ h_log' = Append(h_log, "event")
    /\ \E raised \in BOOLEAN :
          IF raised
          THEN /\ UNCHANGED <<shutdown_event, event_writer>>
               /\ IF HandlerCatches("Exception")
                  THEN h_pc' = "terminate" /\ UNCHANGED main_status
                  ELSE HandlerAbort
          ELSE /\ shutdown_event' = EventAfterSet(shutdown_event)
               /\ event_writer' = event_writer \cup {"MainProcess"}
               /\ h_pc' = "terminate"
               /\ UNCHANGED main_status
    /\ UNCHANGED <<mode, app_running, sp_pc, sp_i, processes, added,
                   child_path, signals>>
    /\ UNCHANGED <<ta_vars, child_vars, instance_vars, cookie_vars>>

\* try: process_manager.terminate_all(timeout=10): the call
HandlerTerminateAll ==
    /\ h_pc = "terminate"
    /\ LockFree
    /\ TerminateAllBegin
    /\ h_log' = Append(h_log, "terminate_all")
    /\ h_pc' = "terminate_all"
    /\ UNCHANGED <<mode, app_running, sp_pc, sp_i, main_status, child_path,
                   signals, event_writer>>
    /\ UNCHANGED <<instance_vars, cookie_vars, shutdown_event>>

\* terminate_all returns or raises: except Exception, then on to sys.exit
HandlerResume ==
    /\ h_pc = "terminate_all"
    /\ ta_pc \in {"returned", "raised"}
    /\ ta_pc' = "idle"
    /\ IF ta_pc = "raised" /\ ~HandlerCatches("Exception")
       THEN HandlerAbort
       ELSE h_pc' = "exit" /\ UNCHANGED main_status
    /\ UNCHANGED <<mode, app_running, sp_pc, sp_i, processes, added,
                   child_path, h_log, signals, event_writer>>
    /\ UNCHANGED <<active_pids, waited, terminates, kills>>
    /\ UNCHANGED <<child_vars, instance_vars, cookie_vars, shutdown_event>>

\* sys.exit(0)
HandlerExit ==
    /\ h_pc = "exit"
    /\ h_log' = Append(h_log, "exit")
    /\ h_pc' = "idle"
    /\ main_status' = IF ExitSwallowed THEN main_status ELSE "exit0"
    /\ UNCHANGED <<mode, app_running, sp_pc, sp_i, processes, added,
                   child_path, signals, event_writer>>
    /\ UNCHANGED <<ta_vars, child_vars, instance_vars, cookie_vars, shutdown_event>>

\* a signal is delivered to a child (Ctrl-C reaches the whole process group)
ChildSignal ==
    /\ \E p \in Procs, sig \in HandledSignals :
          /\ proc_state[p] \in {"booting", "running"}
          /\ LET disp == ChildDisposition(proc_state[p], sig)
             IN  /\ proc_state' = [proc_state EXCEPT ![p] =
                        IF disp = "default" THEN "terminating" ELSE @]
                 /\ IF disp = "handler"
                    THEN IF HandlerProceeds("Process")
                         THEN /\ child_path' = [child_path EXCEPT ![p] = "proceeded"]
                              /\ shutdown_event' = EventAfterSet(shutdown_event)
                              /\ event_writer' = event_writer \cup {"Process"}
                         ELSE /\ child_path' = [child_path EXCEPT ![p] = "returned"]
                              /\ UNCHANGED <<shutdown_event, event_writer>>
                    ELSE UNCHANGED <<child_path, shutdown_event, event_writer>>
    /\ UNCHANGED <<mode, app_running, sp_pc, sp_i, proc_pid, processes, added,
                   h_pc, h_log, signals, main_status>>
    /\ UNCHANGED <<ta_vars, instance_vars, cookie_vars>>

InitMain ==
    /\ InitCommon
    /\ InitSupervisor
    /\ InitCookies
    /\ expected_url = TargetURL
    /\ max_retries = DefaultMaxRetries
    /\ mode \in {"standalone", "server"}

NextMain ==
    \/ MainStart
    \/ SpawnCheck
    \/ SpawnStart
    \/ SpawnAdd
    \/ Monitor
    \/ MonitorJoin
    \/ MonitorSleep
    \/ MainReturn
    \/ Signal
    \/ HandlerFlag
    \/ HandlerEvent
    \/ HandlerTerminateAll
    \/ HandlerResume
    \/ HandlerExit
    \/ TA_Wait
    \/ TA_Kill
    \/ TA_Raise
    \/ ChildExit
    \/ ChildReset
    \/ ChildSignal

SpecMain == InitMain /\ [][NextMain]_vars

\* ------------------------------------------------------------------------
\* The credential normalizer (utils/cookie_handler.py)
\* ------------------------------------------------------------------------

\* longest list of exported-cookie elements given to the normalizer
MaxLen == 2

\* longest delimited string given to the normalizer
MaxStr == 4

Restrict(f, K) == [k \in K |-> f[k]]

RequiredKeys == {"name", "value", "domain", "path"}

\* an expirationDate: null, or a number given in tenths
Null == [null |-> TRUE, tenths |-> 0]
Num(t) == [null |-> FALSE, tenths |-> t]

\* an element of a JSON array that is not an object
NotADict == [notdict |-> "int"]

GoodCookie == [name |-> "SID", value |-> "abc", domain |-> ".google.com",
               path |-> "/"]

\* elements with each required field absent or empty, with every way of
\* stating the expiry, and with the optional fields
Elements ==
    {GoodCookie}
    \cup {Restrict(GoodCookie, RequiredKeys \ {k}) : k \in RequiredKeys}
    \cup {[GoodCookie EXCEPT ![k] = ""] : k \in RequiredKeys}
    \cup {GoodCookie @@ e : e \in
            {[expirationDate |-> Null],
             [expirationDate |-> Num(17999)],
             [expirationDate |-> Num(-15)],
             [session |-> TRUE],
             [session |-> FALSE],
             [session |-> TRUE, expirationDate |-> Num(17999)],
             [session |-> FALSE, expirationDate |-> Num(17999)],
             [session |-> FALSE, expirationDate |-> Null]}}
    \cup {GoodCookie @@ x : x \in
            {[sameSite |-> "no_restriction"],
             [sameSite |-> "Strict"],
             [sameSite |-> "lax"],
             [sameSite |-> "unspecified"],
             [sameSite |-> "other"],
             [httpOnly |-> TRUE, secure |-> FALSE, storeId |-> "0"]}}
    \cup {NotADict}

SeqsUpTo(S, n) == UNION {[1..m -> S] : m \in 0..n}

\* what json.loads or the caller can hand to auto_convert_to_playwright
CookieInputs ==
    {[type |-> "list", items |-> q] : q \in SeqsUpTo(Elements, MaxLen)}
    \cup {[type |-> "str", chars |-> c] : c \in SeqsUpTo({" ", ";", "=", "a", "b"}, MaxStr)}
    \cup {[type |-> t] : t \in {"dict", "int", "float", "bool", "NoneType"}}

\* int(x) of a number given in tenths: truncation toward zero
IntCast(t) == IF t >= 0 THEN t \div 10 ELSE -((-t) \div 10)

\* str(v).lower()
Lower(v) == CASE v = "Strict" -> "strict" [] OTHER -> v

\* v.capitalize()
Capitalize(v) == CASE v = "lax" -> "Lax" [] v = "strict" -> "Strict" [] OTHER -> v

\* cookie.get('session', False)
SessionFlag(cookie) == IF "session" \in DOMAIN cookie THEN cookie.session ELSE FALSE

\* the 'expires' entry of pw_cookie, if any
ExpiresPart(cookie) ==
    IF SessionFlag(cookie) THEN [expires |-> -1]
    ELSE IF "expirationDate" \in DOMAIN cookie
         THEN IF ~cookie.expirationDate.null
              THEN [expires |-> IntCast(cookie.expirationDate.tenths)]
              ELSE [expires |-> -1]
         ELSE <<>>

\* the 'sameSite' entry of pw_cookie, if any
SameSitePart(cookie) ==
    IF "sameSite" \in DOMAIN cookie
    THEN LET v == Lower(cookie.sameSite)
         IN  IF v = "no_restriction" THEN [sameSite |-> "None"]
             ELSE IF v \in {"lax", "strict"} THEN [sameSite |-> Capitalize(v)]
             ELSE IF v = "unspecified" THEN [sameSite |-> "Lax"]
             ELSE <<>>
    ELSE <<>>

\* pw_cookie built from one element
PwCookie(cookie) ==
    Restrict(cookie, (RequiredKeys \cup {"httpOnly", "secure"}) \cap DOMAIN cookie)
        @@ ExpiresPart(cookie) @@ SameSitePart(cookie)

EmittedAlways(pw_cookie) == TRUE

\* if all(key in pw_cookie for key in ['name', 'value', 'domain', 'path'])
Emitted(pw_cookie) == RequiredKeys \subseteq DOMAIN pw_cookie

RECURSIVE EditorList(_)
\* playwright_cookies of convert_cookie_editor_to_playwright
EditorList(items) ==
    IF items = <<>> THEN <<>>
    ELSE LET pw == PwCookie(Head(items))
         IN  (IF Emitted(pw) THEN <<pw>> ELSE <<>>) \o EditorList(Tail(items))

\* convert_cookie_editor_to_playwright: an element that is not an object
\* makes `key in cookie` raise
convert_cookie_editor_to_playwright(items) ==
    IF \E i \in 1..Len(items) : items[i] = NotADict
    THEN [kind |-> "TypeError", cookies |-> <<>>]
    ELSE [kind |-> "list", cookies |-> EditorList(items)]

RECURSIVE LStrip(_)
LStrip(c) == IF c # <<>> /\ Head(c) = " " THEN LStrip(Tail(c)) ELSE c

RECURSIVE RStrip(_)
RStrip(c) ==
    IF c # <<>> /\ c[Len(c)] = " " THEN RStrip(SubSeq(c, 1, Len(c) - 1)) ELSE c

\* str.strip()
Strip(c) == RStrip(LStrip(c))

\* index of the first ch in c, 0 if there is none
Find(c, ch) ==
    IF \E i \in 1..Len(c) : c[i] = ch
    THEN CHOOSE i \in 1..Len(c) : c[i] = ch /\ \A j \in 1..(i - 1) : c[j] # ch
    ELSE 0

RECURSIVE Split(_, _)
\* str.split(ch)
Split(c, ch) ==
    IF Find(c, ch) = 0 THEN <<c>>
    ELSE <<SubSeq(c, 1, Find(c, ch) - 1)>>
            \o Split(SubSeq(c, Find(c, ch) + 1, Len(c)), ch)

\* the record convert_kv_to_playwright builds for one pair
KvCookie(name, value, default_domain) ==
    [name |-> name, value |-> value, domain |-> default_domain, path |-> "/",
     expires |-> -1, httpOnly |-> FALSE, secure |-> TRUE, sameSite |-> "Lax"]

RECURSIVE KvList(_, _)
\* the loop over cookie_pairs of convert_kv_to_playwright
KvList(pairs, default_domain) ==
    IF pairs = <<>> THEN <<>>
    ELSE LET pair == Strip(Head(pairs))
             eq == Find(pair, "=")
             name == Strip(SubSeq(pair, 1, eq - 1))
             value == Strip(SubSeq(pair, eq + 1, Len(pair)))
             rest == KvList(Tail(pairs), default_domain)
         IN  IF pair = <<>> \/ eq = 0 \/ name = <<>>
             THEN rest
             ELSE <<KvCookie(name, value, default_domain)>> \o rest

\* convert_kv_to_playwright
convert_kv_to_playwright(kv_string, default_domain) ==
    [kind |-> "list", cookies |-> KvList(Split(kv_string, ";"), default_domain)]

AutoRouteLenient(type) == IF type = "list" THEN "editor" ELSE "kv"

\* isinstance(cookie_data, list) / isinstance(cookie_data, str) / neither
AutoRoute(type) ==
    CASE type = "list" -> "editor"
      [] type = "str" -> "kv"
      [] OTHER -> "ValueError"

\* auto_convert_to_playwright
auto_convert_to_playwright(data, default_domain) ==
    CASE AutoRoute(data.type) = "editor" ->
            convert_cookie_editor_to_playwright(
                IF "items" \in DOMAIN data THEN data.items ELSE <<>>)
      [] AutoRoute(data.type) = "kv" ->
            LET cookie_str == Strip(IF "chars" \in DOMAIN data
                                    THEN data.chars ELSE <<>>)
            IN  IF cookie_str = <<>>
                THEN [kind |-> "list", cookies |-> <<>>]
                ELSE convert_kv_to_playwright(cookie_str, default_domain)
      [] OTHER -> [kind |-> "ValueError", cookies |-> <<>>]

\* default_domain=".google.com"
DefaultDomain == ".google.com"

\* a call of auto_convert_to_playwright
AutoConvert ==
    /\ converted = NotConverted
    /\ converted' = auto_convert_to_playwright(cookie_data, DefaultDomain)
    /\ UNCHANGED <<cookie_data, content, cookie_cache, reads, loads,
                   first_result, last_result, last_outcome, sup_vars, instance_vars,
                   shutdown_event>>

InitNormalize ==
    /\ InitCommon
    /\ InitSupervisor
    /\ expected_url = TargetURL
    /\ max_retries = DefaultMaxRetries
    /\ mode = "standalone"
    /\ cookie_data \in CookieInputs
    /\ converted = NotConverted
    /\ content = [s \in Sources |-> Missing]
    /\ cookie_cache = EmptyTable
    /\ reads = [s \in Sources |-> 0]
    /\ loads = [s \in Sources |-> 0]
    /\ first_result = [s \in Sources |-> NoResult]
    /\ last_result = [s \in Sources |-> NoResult]
    /\ last_outcome = [s \in Sources |-> "none"]

NextNormalize == AutoConvert

SpecNormalize == InitNormalize /\ [][NextNormalize]_vars

\* ------------------------------------------------------------------------
\* The credential source registry (utils/cookie_manager.py)
\* ------------------------------------------------------------------------

\* load_cookies calls made per source
MaxLoads == 2

\* source.type
SourceType(s) ==
    CASE s = "file:cookies.json" -> "file"
      [] s = "env_var:USER_COOKIE_1" -> "env_var"
      [] OTHER -> "other"

\* what json.loads gives for the content of a source, or the text itself
\* when json.loads raises JSONDecodeError
Payloads ==
    {[form |-> "json", data |-> [type |-> "list", items |-> <<GoodCookie>>]],
     [form |-> "json", data |-> [type |-> "list", items |-> <<>>]],
     [form |-> "json", data |-> [type |-> "list",
                                 items |-> <<Restrict(GoodCookie, {"name"})>>]],
     [form |-> "json", data |-> [type |-> "dict"]],
     [form |-> "json", data |-> [type |-> "int"]],
     [form |-> "text", data |-> [type |-> "str", chars |-> <<"a", "=", "b">>]]}

\* a file can also be missing, unreadable or empty; an environment variable
\* can be unset or empty, which is the same to the manager
Contents(type) ==
    IF type = "file"
    THEN Payloads \cup {Missing, [form |-> "unreadable"],
                        [form |-> "text", data |-> [type |-> "str", chars |-> <<>>]]}
    ELSE IF type = "env_var" THEN Payloads \cup {Missing}
    ELSE {Missing}

\* _load_from_file / _load_from_env: the list returned or the exception raised
LoadFrom(type, c) ==
    IF c.form = "missing"
    THEN [kind |-> IF type = "file" THEN "FileNotFoundError" ELSE "ValueError(empty)",
          cookies |-> <<>>]
    ELSE IF c.form = "unreadable"
    THEN [kind |-> "OSError", cookies |-> <<>>]
    ELSE LET res == auto_convert_to_playwright(c.data, DefaultDomain)
         IN  IF res.kind = "ValueError"
             THEN [kind |-> "ValueError(format)", cookies |-> <<>>]
             ELSE res

CacheNever(cache, key) == FALSE

\* if cache_key in self._cookie_cache
CacheHit(cache, key) == key \in DOMAIN cache

\* what load_cookies does for source s: the value returned to the caller
\* (always a list), how the call went, and whether the source was read
LoadResult(s) ==
    IF CacheHit(cookie_cache, s)
    THEN [kind |-> "list", cookies |-> cookie_cache[s], how |-> "cached",
          read |-> FALSE]
    ELSE IF SourceType(s) = "other"
    THEN [kind |-> "list", cookies |-> <<>>, how |-> "unknownType", read |-> FALSE]
    ELSE LET res == LoadFrom(SourceType(s), content[s])
         IN  IF res.kind = "list"
             THEN [kind |-> "list", cookies |-> res.cookies, how |-> "loaded",
                   read |-> TRUE]
             ELSE [kind |-> "list", cookies |-> <<>>, how |-> res.kind,
                   read |-> TRUE]

\* a call of load_cookies(source)
LoadCookies ==
    /\ \E s \in Sources :
          /\ loads[s] < MaxLoads
          /\ LET r == LoadResult(s)
                 seen == [kind |-> r.kind, cookies |-> r.cookies]
             IN  /\ loads' = [loads EXCEPT ![s] = @ + 1]
                 /\ reads' = [reads EXCEPT ![s] = IF r.read THEN @ + 1 ELSE @]
                 /\ cookie_cache' = IF r.how = "loaded"
                                    THEN Put(cookie_cache, s, r.cookies)
                                    ELSE cookie_cache
                 /\ last_result' = [last_result EXCEPT ![s] = seen]
                 /\ last_outcome' = [last_outcome EXCEPT ![s] = r.how]
                 /\ first_result' = IF loads[s] = 0
                                    THEN [first_result EXCEPT ![s] = seen]
                                    ELSE first_result
    /\ UNCHANGED <<content, cookie_data, converted, sup_vars, instance_vars,
                   shutdown_event>>

\* the file is written, replaced or removed; the variable is what the
\* process was started with
SourceChanges ==
    /\ \E c \in Contents("file") :
          /\ c # content["file:cookies.json"]
          /\ content' = [content EXCEPT !["file:cookies.json"] = c]
    /\ UNCHANGED <<cookie_cache, reads, loads, first_result, last_result,
                   last_outcome, cookie_data, converted, sup_vars,
                   instance_vars, shutdown_event>>

InitManager ==
    /\ InitCommon
    /\ InitSupervisor
    /\ expected_url = TargetURL
    /\ max_retries = DefaultMaxRetries
    /\ mode = "standalone"
    /\ cookie_data = NoData
    /\ converted = NotConverted
    /\ content \in [Sources -> UNION {Contents(SourceType(s)) : s \in Sources}]
    /\ \A s \in Sources : content[s] \in Contents(SourceType(s))
    /\ cookie_cache = EmptyTable
    /\ reads = [s \in Sources |-> 0]
    /\ loads = [s \in Sources |-> 0]
    /\ first_result = [s \in Sources |-> NoResult]
    /\ last_result = [s \in Sources |-> NoResult]
    /\ last_outcome = [s \in Sources |-> "none"]

NextManager ==
    \/ LoadCookies
    \/ SourceChanges

SpecManager == InitManager /\ [][NextManager]_vars

\* ------------------------------------------------------------------------
\* Properties
\* ------------------------------------------------------------------------

\* once run_browser_instance has returned it does nothing more
ExitIsFinal ==
    pc = "Exited" => (pc' = "Exited" /\ launches' = launches
                      /\ retry_count' = retry_count)

\* the step of this attempt in which a failure is detected
Detects(points) == failure' # failure /\ failure' \in points

\* the KeepAliveError clause ran: counted, then backoff or give up
TookRetryPath ==
    /\ retry_count' = retry_count + 1
    /\ \/ pc' = "Backoff"
       \/ pc' = "Exited" /\ exit_kind' = "gaveUp"

\* the instance ended without counting a retry
TookTerminalPath ==
    /\ retry_count' = retry_count
    /\ pc' = "Exited"
    /\ exit_kind' \in {"returned", "unexpected"}

\* C1: a retryable failure that follows a keep-alive entry is counted as
\* retry 1 and waits base_delay, whatever failed before that entry.
C1_ResetOnKeepAlive ==
    (pc = "Backoff" /\ ka_entered) => (retry_count = 1 /\ delay = base_delay)

\* delays of retries 1..6
BackoffTable == <<3, 6, 12, 24, 48, 60>>

\* C2: every backoff wait after retry r lasts 3, 6, 12, 24, 48, 60 for
\* r = 1..6 and 60 for every larger r.
C2_BackoffSequence ==
    pc = "Backoff" =>
        /\ retry_count >= 1
        /\ delay = IF retry_count <= 6 THEN BackoffTable[retry_count] ELSE 60
        /\ delay <= 60

C2_Witness == pc = "Backoff" /\ retry_count = 7 /\ delay = 60

\* C3: the instance launches at most max_retries + 1 times; when the retry
\* count reaches max_retries + 1 it has given up, and after giving up it
\* never launches again.
C3_GiveUpAtCeiling ==
    /\ [](launches <= max_retries + 1)
    /\ [](retry_count = max_retries + 1 =>
             (pc = "Exited" /\ exit_kind = "gaveUp"))
    /\ [](exit_kind = "gaveUp" => retry_count = max_retries + 1)
    /\ [][ExitIsFinal]_vars

C3_Witness ==
    /\ pc = "Exited"
    /\ exit_kind = "gaveUp"
    /\ max_retries = DefaultMaxRetries
    /\ launches = max_retries + 1
    /\ retry_count = launches

\* C4: an error raised while launching is counted as a retry and leads to
\* the backoff wait (or to giving up at the ceiling), never to a plain exit.
C4_LaunchErrorRetryable ==
    [][Detects({"launchError"}) => TookRetryPath]_vars

\* C5: a navigation timeout or network error ends the instance at once:
\* no classification, no retry counted, no backoff, whether or not the
\* diagnostic capture raised.
C5_NavigationFailureTerminal ==
    /\ [][(pc = "Navigating" /\ nav' \in {"timeout", "neterror"}) =>
             (/\ pc' = "Exited"
              /\ exit_kind' = "returned"
              /\ retry_count' = retry_count
              /\ delay' = delay
              /\ final_url' = NoURL)]_vars
    /\ [][ExitIsFinal]_vars

C5_Witness ==
    /\ pc = "Exited"
    /\ nav = "timeout"
    /\ capture = "raised"
    /\ exit_kind = "returned"
    /\ final_url = NoURL

\* C6: a loading indicator that does not disappear in time always takes the
\* retry path, never a plain exit.
C6_SpinnerTimeoutRetryable ==
    [][Detects({"spinnerTimeout"}) => TookRetryPath]_vars

\* failure points that capture diagnostics, by the classification they have
\* when the capture succeeds
RetryablePoints == {"spinnerTimeout", "keepAliveClick"}
TerminalPoints == {"navTimeout", "navNetError", "identifier", "chooser",
                   "unexpectedURL", "authBanner", "loginVisible"}

\* C7: at every failure point that captures diagnostics the classification
\* is that of the failure point, whether the capture succeeds or raises.
C7_CaptureNeverReclassifies ==
    [][/\ Detects(RetryablePoints) => TookRetryPath
       /\ Detects(TerminalPoints) => TookTerminalPath]_vars

\* C8: landing on the identifier sign-in URL ends the instance, for every
\* expected URL: no keep-alive, no backoff.
C8_IdentifierTerminal ==
    Contains(final_url, IDENTIFIER_PATTERN) =>
        /\ pc = "Exited"
        /\ exit_kind \in {"returned", "unexpected"}
        /\ failure = "identifier"
        /\ ~ka_entered

C8_Witness ==
    /\ Contains(final_url, IDENTIFIER_PATTERN)
    /\ ExpectedPath(expected_url) # <<>>
    /\ Contains(FinalPath(final_url), ExpectedPath(expected_url))
    /\ pc = "Exited"

\* C9: landing on the account-chooser sign-in URL never leads to keep-alive,
\* for every expected URL.
C9_ChooserTerminal ==
    Contains(final_url, CHOOSER_PATTERN) => ~ka_entered

\* the landed page is not a sign-in page, its path contains the expected
\* path, the loading indicator clears and no banner or login control shows
LandedConfirmed ==
    /\ final_url # NoURL
    /\ ~Contains(final_url, IDENTIFIER_PATTERN)
    /\ ~Contains(final_url, CHOOSER_PATTERN)
    /\ Contains(FinalPath(final_url), ExpectedPath(expected_url))
    /\ page.spinner = "hidden"
    /\ page.banner = "hidden"
    /\ page.login = "hidden"

\* keep-alive was entered, or the confirmation checks are still running
EntersKeepAlive ==
    ka_entered \/ pc \in {"SpinnerWait", "BannerCheck", "LoginCheck"}

\* C10 as stated: confirmed landing yields keep-alive for every expected
\* path, the empty one included.
C10_AnyPathKeepAlive == LandedConfirmed => EntersKeepAlive

\* C10 as amended: confirmed landing yields keep-alive for every non-empty
\* expected path.
C10_NonEmptyPathKeepAlive ==
    (LandedConfirmed /\ ExpectedPath(expected_url) # <<>>) => EntersKeepAlive

C10_Witness ==
    /\ LandedConfirmed
    /\ ExpectedPath(expected_url) # <<>>
    /\ FinalPath(final_url) # ExpectedPath(expected_url)
    /\ pc = "KeepAlive"
    /\ ka_entered

\* C11: a re-validation that reports the session invalid ends the instance
\* for good: the exit is not turned into a retry by the keep-alive loop,
\* no retry is counted and the browser is not launched again.
C11_ValidationFailureFatal ==
    /\ [][Detects({"cookieInvalid"}) =>
             (/\ pc' = "Exited"
              /\ exit_kind' = "cookieFailure"
              /\ retry_count' = retry_count
              /\ launches' = launches)]_vars
    /\ [][ExitIsFinal]_vars

C11_Witness ==
    pc = "Exited" /\ exit_kind = "cookieFailure" /\ failure = "cookieInvalid"

\* C12: the re-validation runs exactly on the 360th successful click since
\* keep-alive entry or since the last successful validation; the counter
\* stays in 0..360 and goes back to 0 inside the loop only after a validation
\* that succeeded.
C12_ValidationEvery360 ==
    /\ [](click_counter \in 0..360)
    /\ [][(pc = "KA_LoopTop" /\ pc' = "KA_Sleep") =>
             IF click_counter + 1 = 360
             THEN validation' = "valid" /\ click_counter' = 0
             ELSE validation' = "none" /\ click_counter' = click_counter + 1]_vars
    /\ [][Detects({"cookieInvalid"}) => click_counter + 1 = 360]_vars
    /\ [][(click_counter # 0 /\ click_counter' = 0
             /\ pc' \in {"KA_LoopTop", "KA_Sleep"}) =>
             validation' = "valid"]_vars

C12_Witness ==
    pc = "KA_Sleep" /\ validation = "valid" /\ click_counter = 0 /\ tick = 1

\* C13: an error of the periodic click takes the retry path, whether the
\* diagnostic screenshot succeeds or raises.
C13_ClickErrorRetryable ==
    [][Detects({"keepAliveClick"}) => TookRetryPath]_vars

C13_Witness ==
    /\ pc = "Backoff"
    /\ failure = "keepAliveClick"
    /\ capture = "raised"
    /\ retry_count >= 1

KeepAlivePCs == {"KeepAlive", "KA_Popup", "KA_Settle", "KA_LoopTop", "KA_Sleep"}

\* C14: anywhere in keep-alive (interstitial dismissal, settle
\* wait, interaction loop) the instance never waits more than one tick
\* without checking the shutdown signal.
C14_OneTickEverywhere ==
    pc \in KeepAlivePCs => unchecked <= 1

\* ---- ProcessManager ----

\* every record whose process has an assigned pid is keyed by that pid and
\* stores that pid
Reconciled ==
    \A k \in DOMAIN processes :
        LET real == proc_pid[processes[k].process]
        IN  real # None => (k = PidKey(real) /\ processes[k].pid = real)

\* C15: there is never more than one record for a real process identifier
\* (by key, by stored pid, or by the pid of its process), a record under a
\* pid key stores that pid, and after update_temp_pids, get_alive_processes
\* or the start of terminate_all every record whose process has a pid is
\* keyed by it and stores it, none being left under a placeholder key
C15_OneRecordPerPid ==
    /\ [](\A n \in PIDs :
            /\ Cardinality({k \in DOMAIN processes :
                               \/ k = PidKey(n)
                               \/ processes[k].pid = n
                               \/ proc_pid[processes[k].process] = n}) <= 1
            /\ PidKey(n) \in DOMAIN processes => processes[PidKey(n)].pid = n)
    /\ [][(PM_UpdateTempPids \/ PM_GetAliveProcesses \/ PM_TerminateAll)
             => Reconciled']_vars

\* a process added before it had a pid is now recorded under its pid
C15_Witness ==
    \E p \in DOMAIN added :
        /\ IsTemp(added[p])
        /\ proc_pid[p] # None
        /\ PidKey(proc_pid[p]) \in DOMAIN processes
        /\ processes[PidKey(proc_pid[p])] = [process |-> p, pid |-> proc_pid[p]]
        /\ \A k \in DOMAIN processes : ~IsTemp(k)

\* the processes that have a record in the table
Tracked == {processes[k].process : k \in DOMAIN processes}

\* C16: terminate_all on an empty table returns at once, sending nothing and
\* changing no process; otherwise it sends one graceful request to each
\* tracked live process and to no other, and when all of these have exited
\* before the kill phase looks at them it returns with zero forced kills
C16_GracefulOnly ==
    /\ [][(PM_TerminateAll /\ DOMAIN processes = {}) =>
             (/\ ta_pc' = "returned"
              /\ terminates' = NoCalls /\ kills' = NoCalls
              /\ proc_state' = proc_state /\ processes' = processes)]_vars
    /\ [][PM_TerminateAll =>
             \A p \in Procs :
                 terminates'[p] = IF p \in Tracked' /\ IsAlive(p) THEN 1 ELSE 0]_vars
    /\ [][(/\ ta_pc \in {"wait", "kill"} /\ ta_pc' = "returned"
            /\ \A k \in active_pids : ~IsAlive(processes[k].process)) =>
             (kills' = NoCalls /\ terminates' = terminates)]_vars

\* every process was tracked and alive, got the graceful request, exited
\* in the window, and terminate_all returned without a forced kill
C16_Witness ==
    /\ ta_pc = "returned"
    /\ waited > 0
    /\ \A p \in Procs : terminates[p] = 1 /\ kills[p] = 0 /\ proc_state[p] = "dead"

\* C17: process.kill() is called only in the last phase, after the wait loop
\* has run its 5 units, only on a process that got the graceful request of
\* this call, and once; when that phase returns, every tracked process that
\* was alive at its start has been killed exactly once
C17_KillAfterWindow ==
    /\ [][\A p \in Procs :
             kills'[p] > kills[p] =>
                 (/\ ta_pc = "kill" /\ waited = GRACE_POLLS
                  /\ terminates[p] = 1
                  /\ kills[p] = 0 /\ kills'[p] = 1)]_vars
    /\ [](ta_pc = "kill" => waited = GRACE_POLLS)
    /\ [][(ta_pc = "kill" /\ ta_pc' = "returned") =>
             \A p \in Procs :
                 IF p \in Tracked /\ IsAlive(p)
                 THEN kills'[p] = 1 /\ proc_state'[p] = "dead"
                 ELSE kills'[p] = 0]_vars

\* two processes were sent the graceful request; the one that did not exit
\* was killed, the other was not
C17_Witness ==
    /\ ta_pc = "returned"
    /\ waited = GRACE_POLLS
    /\ Cardinality({p \in Procs : terminates[p] = 1}) = MaxProcs
    /\ Cardinality({p \in Procs : kills[p] = 1}) = 1

\* ---- signal_handler ----

\* the steps of signal_handler in the order of the code
HandlerSteps == <<"flag", "event", "terminate_all", "exit">>

IsPrefix(s, t) == Len(s) <= Len(t) /\ \A i \in 1..Len(s) : s[i] = t[i]

\* C18: in the top-level process signal_handler clears app_running, then
\* sets the ShutdownSignal, then calls terminate_all, then calls
\* sys.exit(0); unless a further signal starts it anew, it goes on to the
\* next step also when shutdown_event.set() or terminate_all raised, it is
\* left only through sys.exit(0), and the top-level process never ends with
\* another status
C18_HandlerOrder ==
    /\ [](IsPrefix(h_log, HandlerSteps))
    /\ [](Len(h_log) >= 1 => ~app_running)
    /\ [][(h_pc = "terminate_all" /\ h_pc' # h_pc /\ signals' = signals)
             => (ta_pc \in {"returned", "raised"} /\ h_pc' = "exit")]_vars
    /\ [][(h_pc = "event" /\ h_pc' # h_pc /\ signals' = signals)
             => h_pc' = "terminate"]_vars
    /\ [][(h_pc # "idle" /\ h_pc' = "idle") =>
             (/\ h_log' = HandlerSteps
              /\ main_status' = IF ExitSwallowed THEN "running" ELSE "exit0")]_vars
    /\ [](main_status \in {"running", "exit0"})

\* the handler went through all four steps and the top-level process ended
\* with status 0 although shutdown_event.set() had raised
C18_Witness ==
    /\ h_log = HandlerSteps
    /\ main_status = "exit0"
    /\ ~shutdown_event
    /\ \E p \in Procs : terminates[p] = 1

\* C19: once set the ShutdownSignal stays set, whatever is delivered later,
\* and app_running becomes true only before any signal was delivered: once
\* signal_handler has cleared it, it stays false
C19_Monotone ==
    /\ [][shutdown_event => shutdown_event']_vars
    /\ [][(~app_running /\ app_running') => (signals = 0 /\ sp_pc = "idle")]_vars
    /\ [][(Len(h_log) >= 1 /\ ~app_running) => ~app_running']_vars

\* a second signal was delivered while signal_handler was inside
\* terminate_all; the second handler has set the ShutdownSignal again
C19_Witness ==
    /\ signals = 2
    /\ h_log = <<"flag", "event">>
    /\ event_writer = {"MainProcess"}
    /\ shutdown_event
    /\ ~app_running
    /\ \E p \in Procs : terminates[p] = 1

\* C20: signal_handler never goes past its first check in a child; no child
\* calls shutdown_event.set(); a signal delivered to a child changes neither
\* the ShutdownSignal nor app_running nor starts terminate_all; the
\* ShutdownSignal changes only in the step of signal_handler in the
\* top-level process that sets it
C20_OnlyMainShutsDown ==
    /\ [](\A p \in Procs : child_path[p] # "proceeded")
    /\ [](event_writer \subseteq {"MainProcess"})
    /\ [][ChildSignal =>
             (/\ shutdown_event' = shutdown_event
              /\ app_running' = app_running
              /\ ta_pc' = ta_pc /\ terminates' = terminates
              /\ h_pc' = h_pc)]_vars
    /\ [][shutdown_event' # shutdown_event => h_pc = "event"]_vars

\* signal_handler ran in a child and returned at its first check; the child
\* is alive and nothing of the shutdown path has happened
C20_Witness ==
    /\ \E p \in Procs : child_path[p] = "returned" /\ proc_state[p] = "running"
    /\ ~shutdown_event
    /\ app_running
    /\ signals = 0

\* ---- the HTTP status surface ----

\* C21: a request to /health or / leaves the process table as it was
C21_RequestReadsOnly == [][PM_StatusRequest => processes' = processes]_vars

\* C21 as amended: a request adds no record; it removes exactly the records
\* of processes that are not alive and moves exactly the placeholder records
\* of live processes to their pid; the record of a live process under its pid
\* stays as it was
C21_RequestReapsAndRekeys ==
    [][PM_StatusRequest =>
         (/\ {processes'[k].process : k \in DOMAIN processes'}
                = {p \in Tracked : IsAlive(p)}
          /\ \A k \in DOMAIN processes :
                 (~IsTemp(k) /\ IsAlive(processes[k].process)) =>
                     (k \in DOMAIN processes' /\ processes'[k] = processes[k])
          /\ \A k \in DOMAIN processes' : ~IsTemp(k)
          /\ Reconciled')]_vars

\* a request has just been served: every record is of a live process under
\* its pid, while a process that was added and has ended has no record
C21_Witness ==
    /\ ta_pc = "idle"
    /\ DOMAIN processes # {}
    /\ \A k \in DOMAIN processes : ~IsTemp(k) /\ IsAlive(processes[k].process)
    /\ \E p \in DOMAIN added : proc_state[p] = "dead" /\ p \notin Tracked
    /\ \E p \in DOMAIN added : IsTemp(added[p]) /\ p \in Tracked

\* ---- the credential normalizer ----

\* a list of exported-cookie objects was converted
ListConverted ==
    /\ cookie_data.type = "list"
    /\ converted.kind = "list"

HasAll(e) == RequiredKeys \subseteq DOMAIN e

HasAllNonEmpty(e) == \A k \in RequiredKeys : k \in DOMAIN e /\ e[k] # ""

\* the expiry of record r is what C24 says for element e
ExpiryAsStated(e, r) ==
    IF \/ SessionFlag(e)
       \/ "expirationDate" \notin DOMAIN e
       \/ e.expirationDate.null
    THEN "expires" \in DOMAIN r /\ r.expires = -1
    ELSE "expires" \in DOMAIN r /\ r.expires = IntCast(e.expirationDate.tenths)

\* C24: every emitted record has expires = -1 when its element is a session
\* cookie or has no expiration or a null one, and the expiration cast to an
\* integer otherwise
C24_ExpiryNormalized ==
    ListConverted =>
        LET kept == SelectSeq(cookie_data.items, HasAll)
        IN  /\ Len(converted.cookies) = Len(kept)
            /\ \A i \in 1..Len(kept) : ExpiryAsStated(kept[i], converted.cookies[i])

\* C25: the emitted records are, in input order, those of the elements
\* whose name, value, domain and path are all present and non-empty
C25_NonEmptyFields ==
    ListConverted =>
        LET kept == SelectSeq(cookie_data.items, HasAllNonEmpty)
        IN  /\ Len(converted.cookies) = Len(kept)
            /\ \A i \in 1..Len(kept) :
                   \A k \in RequiredKeys : converted.cookies[i][k] = kept[i][k]

\* C25 as amended: the emitted records are, in input order, those of the
\* elements that have the keys name, value, domain and path, whatever their
\* values
C25_PresentFields ==
    ListConverted =>
        LET kept == SelectSeq(cookie_data.items, HasAll)
        IN  /\ Len(converted.cookies) = Len(kept)
            /\ \A i \in 1..Len(kept) :
                   /\ HasAll(converted.cookies[i])
                   /\ \A k \in RequiredKeys : converted.cookies[i][k] = kept[i][k]

\* of two elements the one without a domain was dropped and the one with
\* an empty name was emitted
C25_Witness ==
    /\ ListConverted
    /\ Len(cookie_data.items) = 2
    /\ "domain" \notin DOMAIN cookie_data.items[1]
    /\ Len(converted.cookies) = 1
    /\ converted.cookies[1].name = ""

\* C26: a list goes to the exported-cookie parser, a string gives what the
\* delimited parser gives for it, and any other type ends in ValueError
C26_DispatchOnType ==
    converted.kind # "none" =>
        CASE cookie_data.type = "list" ->
                converted = convert_cookie_editor_to_playwright(cookie_data.items)
          [] cookie_data.type = "str" ->
                converted = convert_kv_to_playwright(cookie_data.chars, DefaultDomain)
          [] OTHER -> converted.kind = "ValueError"

\* a string with leading whitespace was converted to one record
C26_Witness ==
    /\ cookie_data.type = "str"
    /\ Len(cookie_data.chars) = MaxStr
    /\ cookie_data.chars[1] = " "
    /\ converted.kind = "list"
    /\ Len(converted.cookies) = 1

\* C27: handle_successful_navigation has started in an attempt only if, in
\* that attempt, page.goto completed, the landed URL is not the identifier
\* sign-in URL, the landed path contains the non-empty expected path, the
\* loading indicator cleared and neither the authentication-error banner
\* nor a login control was visible
C27_KeepAliveOnlyConfirmed ==
    (ka_entered \/ pc \in KeepAlivePCs \/ pc = "KeepAlive") =>
        /\ ka_entered
        /\ nav = "ok"
        /\ final_url # NoURL
        /\ ~Contains(final_url, IDENTIFIER_PATTERN)
        /\ ExpectedPath(expected_url) # <<>>
        /\ Contains(FinalPath(final_url), ExpectedPath(expected_url))
        /\ page.spinner = "hidden"
        /\ page.banner = "hidden"
        /\ page.login = "hidden"

\* the keep-alive loop runs in the second attempt of the instance
C27_Witness ==
    /\ launches = 2
    /\ ka_entered
    /\ pc = "KA_Sleep"
    /\ FinalPath(final_url) # ExpectedPath(expected_url)

\* the validation page landed on a sign-in URL
OnSignIn(url) ==
    Contains(url, IDENTIFIER_PATTERN) \/ Contains(url, CHOOSER_PATTERN)

\* C28: a re-validation ends the instance as a cookie failure exactly when
\* its page landed on a sign-in URL; a validation navigation that timed out
\* or raised leaves the instance running
C28_ValidationOnURLOnly ==
    validation_nav # "none" =>
        /\ (exit_kind = "cookieFailure") <=> OnSignIn(validation_url)
        /\ validation_nav # "ok" => (pc # "Exited" /\ validation = "valid")

\* C29: process.start() of start_browser_instances runs only while
\* app_running is still true, in both modes
C29_NoStartAfterFlag ==
    [][SpawnStart => app_running]_vars

\* from the browser launch to the last confirmation check of an attempt
AttemptPCs ==
    {"Launching", "Navigating", "Classifying", "SpinnerWait", "BannerCheck",
     "LoginCheck"}

\* C30: the browser is launched only from the loop-top check and only when
\* the check found the shutdown signal unset; an instance at the loop top or
\* in its backoff wait with the signal set never launches again and exits
\* from the loop top; from launch to the end of classification no step of
\* the instance ends it on account of the signal
C30_ShutdownCheckedAtLoopTop ==
    /\ [][(pc' = "Launching" /\ pc # "Launching") =>
             (pc = "LoopTop" /\ ~shutdown_event)]_vars
    /\ [][launches' # launches => (pc = "Launching" /\ launches' = launches + 1)]_vars
    /\ [][(pc = "LoopTop" /\ shutdown_event) =>
             (pc' = "Exited" /\ exit_kind' = "shutdown" /\ launches' = launches)]_vars
    /\ [][(pc = "Backoff" /\ shutdown_event) =>
             (pc' = "LoopTop" /\ shutdown_event' /\ launches' = launches)]_vars
    /\ [][(pc \in AttemptPCs) => (exit_kind' \notin {"shutdown", "normal"})]_vars
    /\ [][(pc \in AttemptPCs /\ pc' = "Exited") => failure' # "none"]_vars

\* the signal was set in the backoff wait after a failed attempt and the
\* instance left from the loop top without another launch
C30_Witness ==
    /\ pc = "Exited"
    /\ exit_kind = "shutdown"
    /\ retry_count = 2
    /\ launches = 2
    /\ shutdown_event

\* ---- the credential source registry ----

\* a load_cookies call for s is being made, after at least one earlier call
LaterLoad(s) == loads'[s] = loads[s] + 1 /\ loads[s] >= 1

\* C22: a source is read at most once, and every load_cookies call after
\* the first returns what the first returned, without reading the source
C22_LoadedOnce ==
    /\ [](\A s \in Sources : reads[s] <= 1)
    /\ [][\A s \in Sources :
             LaterLoad(s) =>
                 (reads'[s] = reads[s] /\ last_result'[s] = first_result[s])]_vars

\* C22 as amended: once a call has loaded a source without an exception,
\* every later call returns that result from the cache without reading the
\* source, zero records included; a call in which the load raised returns an
\* empty list and caches nothing, so the next call reads the source again
C22_LoadedOnceOnSuccess ==
    /\ [][\A s \in Sources :
             (LaterLoad(s) /\ last_outcome[s] \in {"loaded", "cached"}) =>
                 (/\ reads'[s] = reads[s]
                  /\ last_outcome'[s] = "cached"
                  /\ last_result'[s] = last_result[s])]_vars
    /\ [][\A s \in Sources :
             (LaterLoad(s) /\ SourceType(s) # "other"
                /\ last_outcome[s] \notin {"loaded", "cached"}) =>
                 (/\ reads'[s] = reads[s] + 1
                  /\ last_result[s].cookies = <<>>)]_vars
    /\ [](\A s \in Sources :
             s \in DOMAIN cookie_cache <=> last_outcome[s] \in {"loaded", "cached"})

\* the first call gave zero records from a readable source, the file then
\* changed, and the second call gave the cached zero records without reading
C22_Witness ==
    LET s == "file:cookies.json"
    IN  /\ loads[s] = 2
        /\ reads[s] = 1
        /\ last_outcome[s] = "cached"
        /\ first_result[s].cookies = <<>>
        /\ last_result[s] = first_result[s]
        /\ content[s].form = "json"
        /\ LoadFrom("file", content[s]).cookies # <<>>

\* C23: a load from a source without content, or of a payload that is
\* neither a list nor a string, ends in an error for the caller and not in
\* a list
C23_ErrorsVisible ==
    \A s \in Sources :
        last_outcome[s] \in {"FileNotFoundError", "ValueError(empty)",
                              "ValueError(format)"}
            => last_result[s].kind # "list"

\* ---- the fleet ----

\* C31: start_browser_instances starts each configured instance at most
\* once, in the order of the configurations, and nothing is started in the
\* place of a child that has exited or been reaped: a started Process keeps
\* its pid, a dead one stays dead, and the processes started never outnumber
\* the configurations
C31_FleetFixed ==
    /\ [][\A p \in Procs :
             (proc_state[p] = "unstarted" /\ proc_state'[p] # "unstarted") =>
                 (/\ sp_pc = "start" /\ sp_pc' = "add"
                  /\ p = sp_i /\ proc_state'[p] = "booting")]_vars
    /\ [][\A p \in Procs :
             proc_state[p] # "unstarted" =>
                 (/\ proc_state'[p] # "unstarted"
                  /\ proc_pid'[p] = proc_pid[p]
                  /\ proc_state[p] = "dead" => proc_state'[p] = "dead")]_vars
    /\ [][sp_i' \in {sp_i, sp_i + 1}]_vars
    /\ [](/\ \A p \in Procs : proc_state[p] # "unstarted" => p <= sp_i
          /\ \A p, q \in Procs :
                (p # q /\ proc_pid[p] # None) => proc_pid[p] # proc_pid[q]
          /\ Cardinality({p \in Procs : proc_pid[p] # None}) <= MaxProcs)

\* every instance was started, the first one has exited and was reaped by
\* the monitoring loop, which goes on with the other one
C31_Witness ==
    /\ sp_pc = "sleep"
    /\ app_running
    /\ proc_state[1] = "dead"
    /\ \A k \in DOMAIN processes : processes[k].process # 1
    /\ \E p \in Procs : IsAlive(p) /\ \E k \in DOMAIN processes : processes[k].process = p

\* C32: when signal_handler calls terminate_all, every child that was
\* started and is alive has a record in the table and is sent terminate();
\* when the top-level process has ended, no live child is left that was not
\* sent it
C32_StartedCovered ==
    /\ [][HandlerTerminateAll =>
             \A p \in Procs :
                 IsAlive(p) => (p \in Tracked' /\ terminates'[p] = 1)]_vars
    /\ [](main_status # "running" =>
             \A p \in Procs : IsAlive(p) => terminates[p] >= 1)

\* C33: add_process and update_temp_pids keep every record that is in the
\* table: each process that had a record still has one, and add_process
\* changes no record but the one it writes for the process added
C33_AddKeepsRecords ==
    /\ [][PM_AddProcess =>
             (/\ Tracked \subseteq Tracked'
              /\ \A k \in DOMAIN processes :
                     k \in DOMAIN processes' /\ processes'[k] = processes[k])]_vars
    /\ [][PM_UpdateTempPids => Tracked' = Tracked]_vars

====
